---- MODULE Spec2Model ----
(***************************************************************************)
(* State-machine model of yclass' memory-access layer:                     *)
(*   - the concatenated dump codec, writer and reader (src/src/dump.rs),   *)
(*   - the Process backends and the plugin lifecycle (src/src/process.rs), *)
(*   - the attach/detach handlers of the application (src/src/app.rs).     *)
(*                                                                         *)
(* A byte of the model holds ByteBits bits instead of 8, so that a u64     *)
(* (U64Bytes bytes, little-endian) fits TLC's integers; every layout       *)
(* offset (8-byte words, 24-byte entries) is the code's.  usize is taken   *)
(* to be as wide as u64 (a 64-bit target).  Arithmetic overflow panics in  *)
(* a build with overflow checks ("debug") and wraps in one without         *)
(* ("release"); the build is fixed for a whole behaviour.                  *)
(***************************************************************************)
EXTENDS Integers, Sequences, FiniteSets, TLC

\* ------------------------------------------------------------------ bounds
ByteBits == 2
MaxChunks == 2
MaxDataLen == 2

\* ------------------------------------------------------- program constants
U64Bytes == 8
SIZE == 24

ByteRadix == 2 ^ ByteBits
U64Mod == ByteRadix ^ U64Bytes
U64Max == U64Mod - 1

Builds == {"debug", "release"}

\* ------------------------------------------------------------ integer ops
Min(a, b) == IF a <= b THEN a ELSE b

\* a + b on u64/usize: [ok |-> FALSE] is the overflow panic of a checked build.
CheckedAdd(a, b, bld) ==
    IF a + b < U64Mod THEN [ok |-> TRUE, v |-> a + b]
    ELSE IF bld = "debug" THEN [ok |-> FALSE, v |-> 0]
    ELSE [ok |-> TRUE, v |-> (a + b) % U64Mod]

saturating_sub(a, b) == IF a >= b THEN a - b ELSE 0

to_le_bytes(v) == [i \in 1..U64Bytes |-> (v \div (ByteRadix ^ (i - 1))) % ByteRadix]

RECURSIVE LeValue(_, _)
LeValue(b, i) == IF i > Len(b) THEN 0 ELSE b[i] + ByteRadix * LeValue(b, i + 1)

from_le_bytes(b) == LeValue(b, 1)

\* &m[a..b] of a slice or mapping m: a panic unless a <= b <= len.
Slice(m, a, b) ==
    IF a > b \/ b > Len(m) THEN [ok |-> FALSE, bytes |-> <<>>]
    ELSE [ok |-> TRUE, bytes |-> SubSeq(m, a + 1, b)]

RECURSIVE Concat(_)
Concat(ss) == IF ss = <<>> THEN <<>> ELSE Head(ss) \o Concat(Tail(ss))


\* ------------------------------------------------------------- ChunkEntry
ChunkEntry(a, fo, l) == [address |-> a, file_offset |-> fo, length |-> l]

from_bytes(bytes) ==
    IF Len(bytes) < SIZE THEN [tag |-> "Err"]
    ELSE [tag |-> "Ok",
          entry |-> ChunkEntry(from_le_bytes(SubSeq(bytes, 1, 8)),
                               from_le_bytes(SubSeq(bytes, 9, 16)),
                               from_le_bytes(SubSeq(bytes, 17, 24)))]

\* Mutant: file_offset and length are stored in each other's place.
to_bytes_swapped(e) ==
    to_le_bytes(e.address) \o to_le_bytes(e.length) \o to_le_bytes(e.file_offset)

to_bytes(e) ==
    to_le_bytes(e.address) \o to_le_bytes(e.file_offset) \o to_le_bytes(e.length)

\* ------------------------------------------------- ConcatenatedDumpReader
\* BTreeMap<u64, ChunkEntry>: a function on its set of keys.
EmptyMap == [a \in {} |-> ChunkEntry(0, 0, 0)]

\* BTreeMap::insert: a later entry replaces an earlier one with the same key.
insert(m, e) ==
    [a \in DOMAIN m \cup {e.address} |-> IF a = e.address THEN e ELSE m[a]]

OpenErr(msg) == [tag |-> "Err", msg |-> msg, mmap |-> <<>>, chunks |-> EmptyMap]
OpenPanic == [tag |-> "Panic", msg |-> "panic", mmap |-> <<>>, chunks |-> EmptyMap]

\* The validation of one entry (dump.rs:185-186): "err", "panic" or "ok".
ValidateEntry(entry, index_offset, bld) ==
    IF entry.file_offset >= index_offset THEN "err"
    ELSE LET s == CheckedAdd(entry.file_offset, entry.length, bld)
         IN  IF ~s.ok THEN "panic"
             ELSE IF s.v > index_offset THEN "err"
             ELSE "ok"

\* The loop `for i in 0..chunk_count` of open, from iteration i with the map
\* built so far.
RECURSIVE ReadEntries(_, _, _, _, _, _)
ReadEntries(mmap, index_offset, chunk_count, i, chunks, bld) ==
    IF i >= chunk_count THEN [tag |-> "Ok", msg |-> "", mmap |-> mmap, chunks |-> chunks]
    ELSE LET entry_offset == (index_offset + 8) + i * SIZE
         IN  IF entry_offset + SIZE > Len(mmap)
             THEN OpenErr("Chunk entry extends beyond file")
             ELSE LET entry == from_bytes(SubSeq(mmap, entry_offset + 1, entry_offset + SIZE)).entry
                      v == ValidateEntry(entry, index_offset, bld)
                  IN  IF v = "err" THEN OpenErr("Invalid chunk file offset or length")
                      ELSE IF v = "panic" THEN OpenPanic
                      ELSE ReadEntries(mmap, index_offset, chunk_count, i + 1,
                                       insert(chunks, entry), bld)

\* The chunk-count word (dump.rs:155): a slice of 8 bytes at index_offset.
ChunkCountBytes(mmap, index_offset) == Slice(mmap, index_offset, index_offset + 8)

\* ConcatenatedDumpReader::open on the bytes of the file.
open(mmap, bld) ==
    IF Len(mmap) < 8
    THEN OpenErr("File too small to be a valid concatenated dump")
    ELSE LET index_offset == from_le_bytes(SubSeq(mmap, Len(mmap) - 8 + 1, Len(mmap)))
         IN  IF index_offset >= Len(mmap) THEN OpenErr("Invalid index offset")
             ELSE LET cb == ChunkCountBytes(mmap, index_offset)
                  IN  IF ~cb.ok THEN OpenPanic
                      ELSE LET chunk_count == from_le_bytes(cb.bytes)
                           IN  IF chunk_count > Len(mmap) \div SIZE
                               THEN OpenErr("Invalid chunk count")
                               ELSE ReadEntries(mmap, index_offset, chunk_count, 0,
                                                EmptyMap, bld)

SetMin(S) == CHOOSE x \in S : \A y \in S : x <= y
SetMax(S) == CHOOSE x \in S : \A y \in S : y <= x

\* The keys of a BTreeMap in iteration order (ascending).
RECURSIVE KeysAscending(_)
KeysAscending(S) ==
    IF S = {} THEN <<>> ELSE <<SetMin(S)>> \o KeysAscending(S \ {SetMin(S)})

RECURSIVE KeysDescending(_)
KeysDescending(S) ==
    IF S = {} THEN <<>> ELSE <<SetMax(S)>> \o KeysDescending(S \ {SetMax(S)})

\* Mutant: the index is visited from the highest key down.
IterOrder_reversed(m) == KeysDescending(DOMAIN m)

\* The order in which chunks() visits the index.
IterOrder(m) == KeysAscending(DOMAIN m)

\* ConcatenatedDumpReader::chunks: (address, length) per indexed entry.
chunks(r) ==
    LET ks == IterOrder(r.chunks)
    IN  [i \in 1..Len(ks) |-> <<ks[i], r.chunks[ks[i]].length>>]

None == [tag |-> "None", bytes |-> <<>>]
Some(b) == [tag |-> "Some", bytes |-> b]
Panic == [tag |-> "Panic", bytes |-> <<>>]

\* BTreeMap::get(&address).
Lookup(m, address) == IF address \in DOMAIN m THEN {address} ELSE {}

\* ConcatenatedDumpReader::get_chunk_slice.
get_chunk_slice(r, address, bld) ==
    IF Lookup(r.chunks, address) # {}
    THEN LET entry == r.chunks[address]
             start == entry.file_offset
             end   == CheckedAdd(start, entry.length, bld)
         IN  IF ~end.ok THEN Panic
             ELSE LET sl == Slice(r.mmap, start, end.v)
                  IN  IF sl.ok THEN Some(sl.bytes) ELSE Panic
    ELSE None

\* chunks.range(..=address).next_back(): the keys that qualify.
Predecessors(m, address) == {k \in DOMAIN m : k <= address}

\* The length by which a read is clamped (dump.rs:231-232).
ReadLength(entry, offset_in_chunk, length) ==
    Min(length, saturating_sub(entry.length, offset_in_chunk))

\* ConcatenatedDumpReader::get_memory_slice.
get_memory_slice(r, address, length, bld) ==
    LET ps == Predecessors(r.chunks, address)
    IN  IF ps = {} THEN None
        ELSE LET chunk_addr == SetMax(ps)
                 entry == r.chunks[chunk_addr]
                 top == CheckedAdd(chunk_addr, entry.length, bld)
             IN  IF address < chunk_addr THEN None
                 ELSE IF ~top.ok THEN Panic
                 ELSE IF ~(address < top.v) THEN None
                 ELSE LET offset_in_chunk == address - chunk_addr
                          read_length == ReadLength(entry, offset_in_chunk, length)
                      IN  IF read_length = 0 THEN Some(<<>>)
                          ELSE LET start == CheckedAdd(entry.file_offset, offset_in_chunk, bld)
                               IN  IF ~start.ok THEN Panic
                                   ELSE LET end == CheckedAdd(start.v, read_length, bld)
                                        IN  IF ~end.ok THEN Panic
                                            ELSE LET sl == Slice(r.mmap, start.v, end.v)
                                                 IN  IF sl.ok THEN Some(sl.bytes) ELSE Panic

\* ------------------------------------------------- ConcatenatedDumpWriter
MemoryChunk(a, d) == [address |-> a, data |-> d]

\* Insertion of c behind every chunk whose key is not greater (stable).
RECURSIVE InsertSorted(_, _)
InsertSorted(c, sorted) ==
    IF sorted = <<>> THEN <<c>>
    ELSE IF c.address < Head(sorted).address THEN <<c>> \o sorted
    ELSE <<Head(sorted)>> \o InsertSorted(c, Tail(sorted))

RECURSIVE StableSort(_)
StableSort(cs) ==
    IF cs = <<>> THEN <<>>
    ELSE InsertSorted(cs[Len(cs)], StableSort(SubSeq(cs, 1, Len(cs) - 1)))

\* Mutant: the chunks are emitted in insertion order.
sort_by_key_skipped(cs) == cs

\* self.chunks.sort_by_key(|chunk| chunk.address): a stable sort.
sort_by_key(cs) == StableSort(cs)

\* Mutant: current_offset is not advanced.
AdvanceOffset_stuck(current_offset, chunk) == current_offset

\* current_offset after the chunk has been written (dump.rs:287).
AdvanceOffset(current_offset, chunk) == current_offset + Len(chunk.data)

\* chunk_entries as built by the first loop of write, from current_offset.
RECURSIVE BuildEntries(_, _)
BuildEntries(sorted, current_offset) ==
    IF sorted = <<>> THEN <<>>
    ELSE <<ChunkEntry(Head(sorted).address, current_offset, Len(Head(sorted).data))>>
         \o BuildEntries(Tail(sorted), AdvanceOffset(current_offset, Head(sorted)))

\* current_offset when the first loop of write ends.
RECURSIVE FinalOffset(_, _)
FinalOffset(sorted, current_offset) ==
    IF sorted = <<>> THEN current_offset
    ELSE FinalOffset(Tail(sorted), AdvanceOffset(current_offset, Head(sorted)))

\* let index_offset = current_offset (dump.rs:291), written as the trailer.
IndexOffset(sorted) == FinalOffset(sorted, 0)

\* The buffers handed to write_all by write, in the order of the calls.
WriteCalls(cs) ==
    LET sorted == sort_by_key(cs)
        chunk_entries == BuildEntries(sorted, 0)
    IN  [i \in 1..Len(sorted) |-> sorted[i].data]
        \o <<to_le_bytes(Len(chunk_entries))>>
        \o [i \in 1..Len(chunk_entries) |-> to_bytes(chunk_entries[i])]
        \o <<to_le_bytes(IndexOffset(sorted))>>

\* Mutant: the failed write_all is skipped and the calls after it are made.
write_skipping(cs, n) ==
    LET calls == WriteCalls(cs)
    IN  [res  |-> IF n >= Len(calls) THEN "Ok" ELSE "Err",
         file |-> Concat(SubSeq(calls, 1, Min(n, Len(calls))))
                  \o Concat(SubSeq(calls, n + 2, Len(calls)))]

\* ConcatenatedDumpWriter::write when the first n write_all calls succeed;
\* the call after them, if there is one, fails and `?` returns its error.
write(cs, n) ==
    LET calls == WriteCalls(cs)
    IN  [res  |-> IF n >= Len(calls) THEN "Ok" ELSE "Err",
         file |-> Concat(SubSeq(calls, 1, Min(n, Len(calls))))]

\* --------------------------------------------------------------- inputs
AddrInputs == <<4096, 4098, U64Max - 1>>

\* Chunk bytes that differ between addresses.
Data(k, n) == [i \in 1..n |-> (k + i) % ByteRadix]

ChunkInputs ==
    {MemoryChunk(AddrInputs[k], Data(k, n)) : k \in 1..Len(AddrInputs), n \in 0..MaxDataLen}

ProbeAddrs == {4095, 4096, 4097, 4098, 4099, U64Max - 1, U64Max}
ProbeLens == 0..(MaxDataLen + 1)

\* Files that no writer of this program produced: a data area, a count word,
\* index entries and a trailer, each chosen freely.
ForeignEntryInputs ==
    {ChunkEntry(a, p[1], p[2]) : a \in {4096, 4098},
                                 p \in {<<0, 1>>, <<1, 1>>, <<1, U64Max>>}}

RECURSIVE SeqsUpTo(_, _)
SeqsUpTo(S, n) ==
    IF n = 0 THEN {<<>>}
    ELSE LET shorter == SeqsUpTo(S, n - 1)
         IN  shorter \cup {Append(q, x) : q \in shorter, x \in S}

ForeignFile(data, count, entries, trailer) ==
    data \o to_le_bytes(count)
         \o Concat([i \in 1..Len(entries) |-> to_bytes(entries[i])])
         \o to_le_bytes(trailer)

\* The length of ForeignFile(data, _, entries, _) with n data bytes and k entries.
ForeignLen(n, k) == n + 8 + SIZE * k + 8

\* Trailers: the right one, one leaving no room for the count word, one
\* pointing at the trailer itself, and two out of range.
TrailerInputs(n, k) ==
    {n, ForeignLen(n, k) - 4, ForeignLen(n, k) - 8, ForeignLen(n, k), U64Max}

CountInputs(k) == {k, k + 1, U64Max}

ForeignFiles ==
    UNION {UNION {{ForeignFile(Data(1, n), c, es, t) :
                      c \in CountInputs(Len(es)), t \in TrailerInputs(n, Len(es))} :
                  es \in SeqsUpTo(ForeignEntryInputs, MaxChunks)} :
           n \in 0..MaxDataLen}

\* ---------------------------------------------------------------- state
VARIABLES
    build,        \* "debug" (overflow checks) or "release" (wrapping)
    wchunks,      \* ConcatenatedDumpWriter.chunks, in insertion order
    write_result, \* "none" while the writer is live, then "Ok" or "Err"
    file,         \* the bytes of the file at the dump's path
    origin,       \* "created", "written", "truncated" or "foreign"
    reader,       \* what open returned: tag "NotOpened", "Ok", "Err" or "Panic"
    result,       \* the last query on the reader and what it returned
    listing       \* what the calls of chunks() returned, oldest first

dumpVars == <<build, wchunks, write_result, file, origin, reader, result, listing>>

\* The state of the application's process slot and of the plugin.
VARIABLES
    config,       \* state.config: whether plugin_path is set
    process,      \* the active-backend slot (state.process), NoProcess if empty
    lock_holder,  \* who else holds the slot's RwLock: "none", "reader", "writer"
    plugin_calls, \* every plugin function invoked so far: <<backend id, function>>
    next_id,      \* plugin backends constructed so far
    last_attach,  \* the last Process::attach: its environment and outcome
    toast,        \* the last toast raised
    title         \* the window title

procVars == <<config, process, lock_holder, plugin_calls, next_id, last_attach, toast, title>>

\* A ChunkEntry taken through its codec.
VARIABLES
    codec_entry,   \* the ChunkEntry handed to to_bytes
    codec_bytes,   \* what to_bytes returned, <<>> before the call
    codec_decoded  \* the length of the slice handed to from_bytes and its result

codecVars == <<codec_entry, codec_bytes, codec_decoded>>

\* A Process value used through read / write / can_read.
VARIABLES
    container,    \* the crash-dump container handed to Process::minidump
    backend,      \* the Process value constructed, or how construction ended
    os_maps,      \* the regions the live process has mapped now
    io            \* the last read / write / can_read and what it did

backendVars == <<container, backend, os_maps, io>>

\* The status display of the tool bar.
VARIABLES
    tool_bar        \* the last name() of the active backend and the response issued

statusVars == <<tool_bar>>

\* The class under inspection.
VARIABLES
    fields,              \* class.fields, in layout order
    selection,           \* state.selection
    class_list_selected, \* whether class_list.selected() names the class
    next_field_id,       \* the ids handed out so far
    field_op             \* the last response handled and the state it found

fieldVars == <<fields, selection, class_list_selected, next_field_id, field_op>>

NotOpened == [tag |-> "NotOpened", msg |-> "", mmap |-> <<>>, chunks |-> EmptyMap]
NoResult == [op |-> "none", address |-> 0, length |-> 0, out |-> None]

\* ConcatenatedDumpWriter::create: an empty, truncated file and no chunks.
DumpInit ==
    /\ build \in Builds
    /\ wchunks = <<>>
    /\ write_result = "none"
    /\ file = <<>>
    /\ origin = "created"
    /\ reader = NotOpened
    /\ result = NoResult
    /\ listing = <<>>

\* ConcatenatedDumpWriter::add_chunk.
add_chunk ==
    /\ write_result = "none" /\ origin = "created"
    /\ Len(wchunks) < MaxChunks
    /\ \E chunk \in ChunkInputs : wchunks' = Append(wchunks, chunk)
    /\ UNCHANGED <<build, write_result, file, origin, reader, result, listing, procVars, codecVars, backendVars, statusVars, fieldVars>>

\* ConcatenatedDumpWriter::write, with every write_all succeeding.
WriteOk ==
    /\ write_result = "none" /\ origin = "created"
    /\ LET w == write(wchunks, Len(WriteCalls(wchunks)))
       IN  /\ file' = w.file
           /\ write_result' = w.res
    /\ origin' = "written"
    /\ UNCHANGED <<build, wchunks, reader, result, listing, procVars, codecVars, backendVars, statusVars, fieldVars>>

\* ConcatenatedDumpWriter::write, with the (n+1)-th write_all failing.
WriteFail ==
    /\ write_result = "none" /\ origin = "created"
    /\ \E n \in 0..(Len(WriteCalls(wchunks)) - 1) :
          LET w == write(wchunks, n)
          IN  /\ file' = w.file
              /\ write_result' = w.res
    /\ origin' = "written"
    /\ UNCHANGED <<build, wchunks, reader, result, listing, procVars, codecVars, backendVars, statusVars, fieldVars>>

\* The environment cuts a written dump to fewer than 8 bytes.
Truncate ==
    /\ origin = "written" /\ write_result = "Ok" /\ reader = NotOpened
    /\ \E n \in 0..(U64Bytes - 1) : file' = SubSeq(file, 1, n)
    /\ origin' = "truncated"
    /\ UNCHANGED <<build, wchunks, write_result, reader, result, listing, procVars, codecVars, backendVars, statusVars, fieldVars>>

\* The path names a file that came from elsewhere.
PlaceForeignFile ==
    /\ origin = "created" /\ write_result = "none" /\ wchunks = <<>>
    /\ file' \in ForeignFiles
    /\ origin' = "foreign"
    /\ UNCHANGED <<build, wchunks, write_result, reader, result, listing, procVars, codecVars, backendVars, statusVars, fieldVars>>

\* ConcatenatedDumpReader::open on the file.
Open ==
    /\ origin # "created" /\ reader = NotOpened
    /\ reader' = open(file, build)
    /\ UNCHANGED <<build, wchunks, write_result, file, origin, result, listing, procVars, codecVars, backendVars, statusVars, fieldVars>>

\* The queries take &self and the reader has no interior mutability, so what a
\* query returns does not depend on the queries before it: a behaviour issues
\* one slice query on the opened reader, or chunks() up to twice.

\* reader.get_chunk_slice(address).
GetChunkSlice ==
    /\ reader.tag = "Ok" /\ result = NoResult /\ listing = <<>>
    /\ \E a \in ProbeAddrs :
          result' = [op |-> "get_chunk_slice", address |-> a, length |-> 0,
                     out |-> get_chunk_slice(reader, a, build)]
    /\ UNCHANGED <<build, wchunks, write_result, file, origin, reader, listing, procVars, codecVars, backendVars, statusVars, fieldVars>>

\* reader.get_memory_slice(address, length).
GetMemorySlice ==
    /\ reader.tag = "Ok" /\ result = NoResult /\ listing = <<>>
    /\ \E a \in ProbeAddrs, n \in ProbeLens :
          result' = [op |-> "get_memory_slice", address |-> a, length |-> n,
                     out |-> get_memory_slice(reader, a, n, build)]
    /\ UNCHANGED <<build, wchunks, write_result, file, origin, reader, listing, procVars, codecVars, backendVars, statusVars, fieldVars>>

\* reader.chunks().collect(), at most twice.
Chunks ==
    /\ reader.tag = "Ok" /\ result = NoResult
    /\ Len(listing) < 2
    /\ listing' = Append(listing, chunks(reader))
    /\ UNCHANGED <<build, wchunks, write_result, file, origin, reader, result, procVars, codecVars, backendVars, statusVars, fieldVars>>

DumpNext ==
    \/ add_chunk
    \/ WriteOk
    \/ WriteFail
    \/ Truncate
    \/ PlaceForeignFile
    \/ Open
    \/ GetChunkSlice
    \/ GetMemorySlice
    \/ Chunks

\* ===================================================== process backends
\* ------------------------------------------------------------- bounds
MaxBackends == 2
MaxIo == 1

Pids == {7}

PluginSymbols == {"yc_attach", "yc_read", "yc_write", "yc_can_read", "yc_detach"}

\* What Process::attach finds outside the program when it runs: whether the
\* plugin file exists, whether the library loads, the symbols it lacks, the
\* status its attach function returns, and how the OS answers for the pid.
AttachEnv(exists, loads, missing, status, os) ==
    [exists |-> exists, loads |-> loads, missing |-> missing, status |-> status, os |-> os]

AttachEnvs ==
    {AttachEnv(TRUE, TRUE, {}, st, "ok") : st \in {0, 1}}
    \cup {AttachEnv(TRUE, FALSE, {}, 0, "ok")}
    \cup {AttachEnv(TRUE, TRUE, {sym}, 0, "ok") : sym \in PluginSymbols}
    \cup {AttachEnv(FALSE, FALSE, {}, 0, os) : os \in {"ok", "ok_noname", "no_process", "no_maps"}}

\* The variants of enum Process that attach constructs.
NoProcess == [kind |-> "None", id |-> 0, pid |-> 0]
Managed(id, pid) == [kind |-> "Managed", id |-> id, pid |-> pid]
Internal(pid) == [kind |-> "Internal", id |-> 0, pid |-> pid]

AttachErr(e) == [tag |-> "Err", err |-> e, proc |-> NoProcess, calls |-> <<>>]

\* The plugin call made while the backend is constructed (process.rs:101).
ConstructCalls(id) == <<<<id, "attach">>>>

\* Mutant: yc_attach is called as soon as it is resolved, before the other
\* four symbols are looked up.
attach_early(pid, cfg, env, id) ==
    IF env.exists
    THEN IF ~env.loads THEN AttachErr("library")
         ELSE IF "yc_attach" \in env.missing THEN AttachErr("symbol")
         ELSE IF env.missing # {}
              THEN [tag |-> "Err", err |-> "symbol", proc |-> NoProcess,
                    calls |-> ConstructCalls(id)]
         ELSE [tag |-> "Ok", err |-> "", proc |-> Managed(id, pid),
               calls |-> ConstructCalls(id)]
    ELSE IF cfg.plugin_path_set THEN AttachErr("metadata")
    ELSE IF env.os = "no_process" THEN AttachErr("find_process_by_id")
    ELSE IF env.os = "no_maps" THEN AttachErr("maps")
    ELSE [tag |-> "Ok", err |-> "", proc |-> Internal(pid), calls |-> <<>>]

\* Mutant: a configured plugin path that names no file falls back to Live.
attach_fallback(pid, cfg, env, id) ==
    IF env.exists
    THEN IF ~env.loads THEN AttachErr("library")
         ELSE IF env.missing # {} THEN AttachErr("symbol")
         ELSE [tag |-> "Ok", err |-> "", proc |-> Managed(id, pid),
               calls |-> ConstructCalls(id)]
    ELSE IF env.os = "no_process" THEN AttachErr("find_process_by_id")
    ELSE IF env.os = "no_maps" THEN AttachErr("maps")
    ELSE [tag |-> "Ok", err |-> "", proc |-> Internal(pid), calls |-> <<>>]

\* Process::attach(pid, config) in environment env; id names the plugin
\* backend it would construct. calls are the plugin functions it invokes.
attach(pid, cfg, env, id) ==
    IF env.exists
    THEN IF ~env.loads THEN AttachErr("library")
         ELSE IF env.missing # {} THEN AttachErr("symbol")
         ELSE [tag |-> "Ok", err |-> "", proc |-> Managed(id, pid),
               calls |-> ConstructCalls(id)]
    ELSE IF cfg.plugin_path_set THEN AttachErr("metadata")
    ELSE IF env.os = "no_process" THEN AttachErr("find_process_by_id")
    ELSE IF env.os = "no_maps" THEN AttachErr("maps")
    ELSE [tag |-> "Ok", err |-> "", proc |-> Internal(pid), calls |-> <<>>]

\* Mutant: dropping a plugin backend calls nothing.
drop_forgotten(proc) == <<>>

\* Dropping a Process value: impl Drop for ManagedExtension calls detach.
drop(proc) == IF proc.kind = "Managed" THEN <<<<proc.id, "detach">>>> ELSE <<>>

\* The plugin call of Process::read / write / can_read (none for Live).
IoCalls(proc, fn) == IF proc.kind = "Managed" THEN <<<<proc.id, fn>>>> ELSE <<>>

NoAttach ==
    [pid |-> 0, env |-> AttachEnv(FALSE, FALSE, {}, 0, "ok"), tag |-> "none",
     kind |-> "None", err |-> ""]

ProcInit ==
    /\ config \in [plugin_path_set : BOOLEAN]
    /\ process = NoProcess
    /\ lock_holder = "none"
    /\ plugin_calls = <<>>
    /\ next_id = 0
    /\ last_attach = NoAttach
    /\ toast = ""
    /\ title = "YClass"

\* The process part while only the dump is exercised, and the reverse.
ProcIdle ==
    /\ config = [plugin_path_set |-> FALSE]
    /\ process = NoProcess
    /\ lock_holder = "none"
    /\ plugin_calls = <<>>
    /\ next_id = 0
    /\ last_attach = NoAttach
    /\ toast = ""
    /\ title = "YClass"

DumpIdle ==
    /\ build = "release"
    /\ wchunks = <<>>
    /\ write_result = "none"
    /\ file = <<>>
    /\ origin = "created"
    /\ reader = NotOpened
    /\ result = NoResult
    /\ listing = <<>>

\* The calls of backend id, in order.
CallsOf(id) ==
    LET Mine(c) == c[1] = id
        mine == SelectSeq(plugin_calls, Mine)
    IN  [i \in 1..Len(mine) |-> mine[i][2]]

IoCount(id) ==
    Cardinality({i \in 1..Len(plugin_calls) :
                    plugin_calls[i][1] = id /\ plugin_calls[i][2] \notin {"attach", "detach"}})

\* handle_reponse(Some(ProcessAttach(pid))), app.rs:175-211.
HandleProcessAttach ==
    \E pid \in Pids, env \in AttachEnvs :
        /\ next_id < MaxBackends
        /\ IF lock_holder = "none"
           THEN LET r == attach(pid, config, env, next_id + 1)
                IN  /\ last_attach' = [pid |-> pid, env |-> env, tag |-> r.tag,
                                        kind |-> r.proc.kind, err |-> r.err]
                    /\ next_id' = IF r.proc.kind = "Managed" THEN next_id + 1 ELSE next_id
                    /\ IF r.tag = "Ok"
                       THEN /\ title' = "YClass - Attached to pid"
                            /\ toast' = IF r.proc.kind = "Internal" /\ env.os = "ok_noname"
                                        THEN "Failed to get process name"
                                        ELSE toast
                            /\ plugin_calls' = plugin_calls \o r.calls \o drop(process)
                            /\ process' = r.proc
                       ELSE /\ toast' = "Failed to attach to process"
                            /\ plugin_calls' = plugin_calls \o r.calls
                            /\ UNCHANGED <<process, title>>
           ELSE /\ toast' = "Process is currently in use"
                /\ UNCHANGED <<process, plugin_calls, next_id, last_attach, title>>
        /\ UNCHANGED <<config, lock_holder, dumpVars, codecVars, backendVars, statusVars, fieldVars>>

\* Mutant: the slot is cleared whether or not the write lock was obtained.
HandleProcessDetach_unlocked ==
    /\ plugin_calls' = plugin_calls \o drop(process)
    /\ process' = NoProcess
    /\ title' = "YClass"
    /\ UNCHANGED toast
    /\ UNCHANGED <<config, lock_holder, next_id, last_attach, dumpVars, codecVars, backendVars, statusVars, fieldVars>>

\* handle_reponse(Some(ProcessDetach)), app.rs:161-174.
HandleProcessDetach ==
    /\ IF lock_holder = "none"
       THEN /\ plugin_calls' = plugin_calls \o drop(process)
            /\ process' = NoProcess
            /\ title' = "YClass"
            /\ UNCHANGED toast
       ELSE /\ toast' = "Process is currently in use"
            /\ UNCHANGED <<process, plugin_calls, title>>
    /\ UNCHANGED <<config, lock_holder, next_id, last_attach, dumpVars, codecVars, backendVars, statusVars, fieldVars>>

\* Process::read / write / can_read on the active backend, under the slot's
\* read lock (inspector.rs:162-166, the field widgets).
ProcessIo ==
    /\ process # NoProcess
    /\ lock_holder # "writer"
    /\ process.kind = "Managed"
    /\ IoCount(process.id) < MaxIo
    /\ \E fn \in {"read", "write", "can_read"} :
          plugin_calls' = plugin_calls \o IoCalls(process, fn)
    /\ UNCHANGED <<config, process, lock_holder, next_id, last_attach, toast, title, dumpVars, codecVars, backendVars, statusVars, fieldVars>>

\* Another holder takes or releases the slot's lock.
LockAcquire ==
    /\ lock_holder = "none"
    /\ lock_holder' \in {"reader", "writer"}
    /\ UNCHANGED <<config, process, plugin_calls, next_id, last_attach, toast, title, dumpVars, codecVars, backendVars, statusVars, fieldVars>>

LockRelease ==
    /\ lock_holder # "none"
    /\ lock_holder' = "none"
    /\ UNCHANGED <<config, process, plugin_calls, next_id, last_attach, toast, title, dumpVars, codecVars, backendVars, statusVars, fieldVars>>

ProcNext ==
    \/ HandleProcessAttach
    \/ HandleProcessDetach
    \/ ProcessIo
    \/ LockAcquire
    \/ LockRelease

\* ======================================================= ChunkEntry codec
\* Field values: the ends of the u64 range and values in between.
FieldInputs == {0, 1, 4096, U64Max - 1, U64Max}

EntryInputs ==
    {ChunkEntry(a, fo, l) : a \in FieldInputs, fo \in FieldInputs, l \in FieldInputs}

NotDecoded == [len |-> 0, res |-> [tag |-> "none"]]

CodecInit ==
    /\ codec_entry \in EntryInputs
    /\ codec_bytes = <<>>
    /\ codec_decoded = NotDecoded

CodecIdle ==
    /\ codec_entry = ChunkEntry(0, 0, 0)
    /\ codec_bytes = <<>>
    /\ codec_decoded = NotDecoded

\* entry.to_bytes().
ToBytes ==
    /\ codec_bytes = <<>>
    /\ codec_bytes' = to_bytes(codec_entry)
    /\ UNCHANGED <<codec_entry, codec_decoded, dumpVars, procVars, backendVars, statusVars, fieldVars>>

\* ChunkEntry::from_bytes on the first n bytes of the encoding followed by
\* one more byte.
FromBytes ==
    /\ codec_bytes # <<>> /\ codec_decoded = NotDecoded
    /\ \E n \in 0..(SIZE + 1) :
          codec_decoded' =
              [len |-> n,
               res |-> from_bytes(SubSeq(codec_bytes \o <<ByteRadix - 1>>, 1, n))]
    /\ UNCHANGED <<codec_entry, codec_bytes, dumpVars, procVars, backendVars, statusVars, fieldVars>>

CodecNext ==
    \/ ToBytes
    \/ FromBytes

\* ============================================= snapshot and live backends
\* ------------------------------------------------------------- bounds
MaxRegions == 3

\* A memory region of a crash-dump container: its base address, its bytes and
\* the place of its bytes in the host's memory (an offset into the loaded
\* container).
Region(base, bytes, host) == [base |-> base, bytes |-> bytes, host |-> host]

\* The byte the snapshotted or live process holds at an address; a buffer
\* handed to read is pre-filled with the one byte value no address holds.
ByteAt(address) == address % (ByteRadix - 1)
Filler(n) == [i \in 1..n |-> ByteRadix - 1]

RegionBytes(base, n) == [i \in 1..n |-> ByteAt(base + i - 1)]

RegionLens == {1, 2}

\* The lists obtained by one more region behind rs: numerically adjacent to
\* the last one or one address apart, stored right behind it or one byte apart.
ExtendRegions(rs) ==
    IF rs = <<>>
    THEN {<<Region(4096, RegionBytes(4096, n), 0)>> : n \in RegionLens}
    ELSE LET last == rs[Len(rs)]
             end == last.base + Len(last.bytes)
             hend == last.host + Len(last.bytes)
         IN  {Append(rs, Region(end + gap, RegionBytes(end + gap, n), hend + hgap)) :
                 gap \in {0, 1}, hgap \in {0, 1}, n \in RegionLens}

RECURSIVE RegionLists(_)
RegionLists(k) ==
    IF k = 0 THEN {<<>>}
    ELSE LET shorter == RegionLists(k - 1)
         IN  shorter \cup UNION {ExtendRegions(rs) : rs \in shorter}

\* What Minidump::read_path finds: an unreadable file, a container without a
\* memory list, or a container with its regions in address order.
ContainerInputs ==
    {[parse |-> "invalid", regions |-> <<>>], [parse |-> "no_memory", regions |-> <<>>]}
    \cup {[parse |-> "ok", regions |-> rs] : rs \in RegionLists(MaxRegions)}

\* MemoryRegion of the live backend.
MemoryRegion(from, to, readable) == [from |-> from, to |-> to, read |-> readable]

MapsInputs ==
    {<<>>,
     <<MemoryRegion(4096, 4098, TRUE)>>,
     <<MemoryRegion(4096, 4098, FALSE)>>,
     <<MemoryRegion(4096, 4098, TRUE), MemoryRegion(4098, 4100, FALSE)>>,
     <<MemoryRegion(4096, 4098, FALSE), MemoryRegion(4098, 4100, TRUE)>>,
     <<MemoryRegion(4096, 4097, TRUE), MemoryRegion(4099, 4100, TRUE)>>}

\* The chunk lists of the dumps handed to Process::concatenated_dump.
DumpInputs ==
    {<<>>}
    \cup {<<c>> : c \in ChunkInputs}
    \cup {<<MemoryChunk(4096, Data(1, 1)), MemoryChunk(4098, Data(2, MaxDataLen))>>,
          <<MemoryChunk(4096, Data(1, MaxDataLen + 1)), MemoryChunk(4097, Data(2, 1))>>}

\* enum Process, and the two ways a constructor ends without one.
ProcessValue(kind, segments, r, maps) ==
    [kind |-> kind, segments |-> segments, reader |-> r, maps |-> maps]

NoBackend == ProcessValue("None", <<>>, NotOpened, <<>>)
ConstructErr == ProcessValue("Err", <<>>, NotOpened, <<>>)
ConstructPanic == ProcessValue("Panic", <<>>, NotOpened, <<>>)

NoChunk == [some |-> FALSE, slice |-> <<>>, host |-> 0, address |-> 0]
SomeChunk(slice, host, address) ==
    [some |-> TRUE, slice |-> slice, host |-> host, address |-> address]

\* merge_adjacent_slices(a, b) on the current chunk and the next region's
\* bytes: the assertion fails unless b starts where a ends in host memory.
merge_adjacent_slices(a, b) ==
    IF a.host + Len(a.slice) = b.host
    THEN [ok |-> TRUE, slice |-> a.slice \o b.bytes]
    ELSE [ok |-> FALSE, slice |-> <<>>]

\* The loop `for mem in mem.by_addr()` of Process::minidump from region i on.
RECURSIVE BuildSegments(_, _, _, _, _)
BuildSegments(mem, i, segments, chunk, bld) ==
    IF i > Len(mem) THEN ProcessValue("Minidump", segments, NotOpened, <<>>)
    ELSE LET r == mem[i]
         IN  IF chunk.some
             THEN LET end == CheckedAdd(chunk.address, Len(chunk.slice), bld)
                  IN  IF ~end.ok THEN ConstructPanic
                      ELSE IF end.v = r.base
                      THEN LET merged == merge_adjacent_slices(chunk, r)
                           IN  IF ~merged.ok THEN ConstructPanic
                               ELSE BuildSegments(mem, i + 1, segments,
                                        SomeChunk(merged.slice, chunk.host, chunk.address),
                                        bld)
                      ELSE BuildSegments(mem, i + 1,
                               Append(segments, <<chunk.address, chunk.slice>>),
                               SomeChunk(r.bytes, r.host, r.base), bld)
             ELSE BuildSegments(mem, i + 1, segments,
                                SomeChunk(r.bytes, r.host, r.base), bld)

\* Process::minidump.
minidump(c, bld) ==
    IF c.parse = "invalid" THEN ConstructErr
    ELSE IF c.parse = "no_memory" THEN ConstructPanic
    ELSE BuildSegments(c.regions, 1, <<>>, NoChunk, bld)

\* Process::concatenated_dump.
concatenated_dump(f, bld) ==
    LET r == open(f, bld)
    IN  IF r.tag = "Ok" THEN ProcessValue("ConcatenatedDump", <<>>, r, <<>>)
        ELSE IF r.tag = "Err" THEN ConstructErr
        ELSE ConstructPanic

ReadOk(buf) == [tag |-> "Ok", buf |-> buf]
ReadPanic == [tag |-> "Panic", buf |-> <<>>]

\* The scan of the segments by Process::read, from segment i on.
RECURSIVE ReadSegments(_, _, _, _, _)
ReadSegments(segments, i, address, buf, bld) ==
    IF i > Len(segments) THEN ReadOk(buf)
    ELSE LET addr == segments[i][1]
             mem == segments[i][2]
             end == CheckedAdd(addr, Len(mem), bld)
         IN  IF ~end.ok THEN ReadPanic
             ELSE IF addr <= address /\ address < end.v
             THEN LET base == address - addr
                      top == CheckedAdd(base, Len(buf), bld)
                  IN  IF ~top.ok THEN ReadPanic
                      ELSE LET sl == Slice(mem, base, top.v)
                           IN  IF sl.ok THEN ReadOk(sl.bytes) ELSE ReadPanic
             ELSE ReadSegments(segments, i + 1, address, buf, bld)

\* Process::read(address, buf): the buffer afterwards. os_ok is whether the
\* OS performs the read of the live backend.
Process_read(proc, address, buf, os_ok, bld) ==
    IF proc.kind = "Internal"
    THEN IF os_ok THEN ReadOk([i \in 1..Len(buf) |-> ByteAt(address + i - 1)])
         ELSE ReadOk(buf)
    ELSE IF proc.kind = "Minidump"
    THEN ReadSegments(proc.segments, 1, address, buf, bld)
    ELSE LET data == get_memory_slice(proc.reader, address, Len(buf), bld)
         IN  IF data.tag = "Panic" THEN ReadPanic
             ELSE IF data.tag = "Some"
             THEN LET copy_len == Min(Len(buf), Len(data.bytes))
                  IN  ReadOk(SubSeq(data.bytes, 1, copy_len)
                             \o SubSeq(buf, copy_len + 1, Len(buf)))
             ELSE ReadOk(buf)

CanReadOk(b) == [tag |-> "Ok", out |-> b]
CanReadPanic == [tag |-> "Panic", out |-> FALSE]

\* The scan of the segments by Process::can_read, from segment i on.
RECURSIVE CanReadSegments(_, _, _, _)
CanReadSegments(segments, i, address, bld) ==
    IF i > Len(segments) THEN CanReadOk(FALSE)
    ELSE LET addr == segments[i][1]
             end == CheckedAdd(addr, Len(segments[i][2]), bld)
         IN  IF ~end.ok THEN CanReadPanic
             ELSE IF addr <= address /\ address < end.v THEN CanReadOk(TRUE)
             ELSE CanReadSegments(segments, i + 1, address, bld)

\* Mutant: the Minidump arm tests the end of a segment inclusively, as the
\* Internal arm does.
Process_can_read_inclusive(proc, address, bld) ==
    IF proc.kind = "Internal"
    THEN CanReadOk(\E k \in 1..Len(proc.maps) :
                      /\ proc.maps[k].from <= address
                      /\ proc.maps[k].to >= address
                      /\ proc.maps[k].read)
    ELSE IF proc.kind = "Minidump"
    THEN LET at == CanReadSegments(proc.segments, 1, address, bld)
             before == CanReadSegments(proc.segments, 1, address - 1, bld)
         IN  IF at.tag = "Panic" THEN at
             ELSE CanReadOk(at.out \/ (address > 0 /\ before.out))
    ELSE LET data == get_memory_slice(proc.reader, address, 1, bld)
         IN  IF data.tag = "Panic" THEN CanReadPanic
             ELSE CanReadOk(data.tag = "Some")

\* Process::can_read(address).
Process_can_read(proc, address, bld) ==
    IF proc.kind = "Internal"
    THEN CanReadOk(\E k \in 1..Len(proc.maps) :
                      /\ proc.maps[k].from <= address
                      /\ proc.maps[k].to >= address
                      /\ proc.maps[k].read)
    ELSE IF proc.kind = "Minidump"
    THEN CanReadSegments(proc.segments, 1, address, bld)
    ELSE LET data == get_memory_slice(proc.reader, address, 1, bld)
         IN  IF data.tag = "Panic" THEN CanReadPanic
             ELSE CanReadOk(data.tag = "Some")

\* buf stored into mem from offset base on, as far as mem reaches.
StoreInto(mem, base, buf) ==
    [i \in 1..Len(mem) |->
        IF i > base /\ i <= base + Len(buf) THEN buf[i - base] ELSE mem[i]]

\* Mutant: a write to the snapshot backend stores into the matching segment.
Process_write_through(proc, address, buf) ==
    [proc |-> IF proc.kind = "Minidump"
              THEN [proc EXCEPT !.segments =
                       [i \in 1..Len(proc.segments) |->
                           LET addr == proc.segments[i][1]
                               mem == proc.segments[i][2]
                           IN  IF addr <= address /\ address < addr + Len(mem)
                               THEN <<addr, StoreInto(mem, address - addr, buf)>>
                               ELSE proc.segments[i]]]
              ELSE proc,
     os_write |-> proc.kind = "Internal"]

\* Process::write(address, buf): the Process value afterwards, and whether the
\* OS was asked to write (live backend only).
Process_write(proc, address, buf) ==
    [proc |-> proc, os_write |-> proc.kind = "Internal"]

BackendProbes == (4095..(4096 + MaxRegions * 3)) \cup {U64Max - 1, U64Max}
BufLens == 0..2

\* wrote: whether a write preceded the operation on this backend.
NoIo ==
    [op |-> "none", address |-> 0, len |-> 0, tag |-> "Ok", buf |-> <<>>, out |-> FALSE,
     wrote |-> FALSE]

BackendInit ==
    /\ container = [parse |-> "invalid", regions |-> <<>>]
    /\ backend = NoBackend
    /\ os_maps = <<>>
    /\ io = NoIo

BackendIdle ==
    /\ container = [parse |-> "invalid", regions |-> <<>>]
    /\ backend = NoBackend
    /\ os_maps = <<>>
    /\ io = NoIo

Usable == backend.kind \in {"Minidump", "ConcatenatedDump", "Internal"}

\* read and can_read take &self and what they return depends on the Process
\* value alone: a behaviour issues one of them, on the fresh backend at any
\* probed address or after one write at the address written to.
QueryAddrs == IF io.op = "write" THEN {io.address} ELSE BackendProbes

\* Process::minidump(path) on one of the containers.
OpenMinidump ==
    /\ backend = NoBackend
    /\ \E c \in ContainerInputs :
          /\ container' = c
          /\ backend' = minidump(c, build)
    /\ UNCHANGED <<os_maps, io, dumpVars, procVars, codecVars, statusVars, fieldVars>>

\* Process::concatenated_dump(path) on a dump written by the writer.
OpenConcatenatedDump ==
    /\ backend = NoBackend
    /\ \E cs \in DumpInputs :
          backend' = concatenated_dump(write(cs, Len(WriteCalls(cs))).file, build)
    /\ UNCHANGED <<container, os_maps, io, dumpVars, procVars, codecVars, statusVars, fieldVars>>

\* Process::attach without a plugin: proc.maps() is captured once.
AttachLive ==
    /\ backend = NoBackend
    /\ \E maps \in MapsInputs :
          /\ os_maps' = maps
          /\ backend' = ProcessValue("Internal", <<>>, NotOpened, maps)
    /\ UNCHANGED <<container, io, dumpVars, procVars, codecVars, statusVars, fieldVars>>

\* The live process maps, unmaps or re-protects memory.
MapsChange ==
    /\ backend.kind = "Internal"
    /\ \E maps \in MapsInputs : maps # os_maps /\ os_maps' = maps
    /\ UNCHANGED <<container, backend, io, dumpVars, procVars, codecVars, statusVars, fieldVars>>

\* process.read(address, &mut buf) with a buffer of n filler bytes.
ProcessRead ==
    /\ Usable /\ io.op \in {"none", "write"}
    /\ \E a \in QueryAddrs, n \in BufLens,
          os_ok \in (IF backend.kind = "Internal" THEN BOOLEAN ELSE {TRUE}) :
          LET r == Process_read(backend, a, Filler(n), os_ok, build)
          IN  io' = [op |-> "read", address |-> a, len |-> n, tag |-> r.tag,
                     buf |-> r.buf, out |-> FALSE, wrote |-> io.op = "write"]
    /\ UNCHANGED <<container, backend, os_maps, dumpVars, procVars, codecVars, statusVars, fieldVars>>

\* process.write(address, &buf) with a buffer of n filler bytes.
ProcessWrite ==
    /\ Usable /\ io.op = "none"
    /\ \E a \in BackendProbes, n \in BufLens \ {0} :
          /\ backend' = Process_write(backend, a, Filler(n)).proc
          /\ io' = [op |-> "write", address |-> a, len |-> n, tag |-> "Ok",
                    buf |-> Filler(n), out |-> FALSE, wrote |-> TRUE]
    /\ UNCHANGED <<container, os_maps, dumpVars, procVars, codecVars, statusVars, fieldVars>>

\* process.can_read(address).
ProcessCanRead ==
    /\ Usable /\ io.op \in {"none", "write"}
    /\ \E a \in QueryAddrs :
          LET r == Process_can_read(backend, a, build)
          IN  io' = [op |-> "can_read", address |-> a, len |-> 0, tag |-> r.tag,
                     buf |-> <<>>, out |-> r.out, wrote |-> io.op = "write"]
    /\ UNCHANGED <<container, backend, os_maps, dumpVars, procVars, codecVars, statusVars, fieldVars>>

BackendNext ==
    \/ OpenMinidump
    \/ OpenConcatenatedDump
    \/ AttachLive
    \/ MapsChange
    \/ ProcessRead
    \/ ProcessWrite
    \/ ProcessCanRead

\* ========================================================= status display
\* Process::name: only the OS query of the live backend can fail.
NameOk(n) == [tag |-> "Ok", name |-> n]
NameErr == [tag |-> "Err", name |-> ""]

\* Mutant: the plugin backend's name is queried from the OS as well.
name_queried(proc, os_ok) ==
    IF proc.kind \in {"Internal", "Managed"}
    THEN IF os_ok THEN NameOk("process") ELSE NameErr
    ELSE IF proc.kind = "Minidump" THEN NameOk("[minidump]")
    ELSE NameOk("[concatenated dump]")

\* Process::name(); os_ok is whether the OS answers the name query.
name(proc, os_ok) ==
    IF proc.kind = "Internal" THEN IF os_ok THEN NameOk("process") ELSE NameErr
    ELSE IF proc.kind = "Managed" THEN NameOk("[MANAGED]")
    ELSE IF proc.kind = "Minidump" THEN NameOk("[minidump]")
    ELSE NameOk("[concatenated dump]")

NoStatus == [name |-> "none", response |-> "none"]

StatusIdle == tool_bar = NoStatus

\* ToolBarPanel::status_ui with a backend in the slot: name() under the
\* slot's read lock; on an error a toast and the response ProcessDetach.
StatusUi ==
    /\ process # NoProcess
    /\ lock_holder # "writer"
    /\ tool_bar.response = "none"
    /\ \E os_ok \in BOOLEAN :
          LET proc_name == name(process, os_ok)
          IN  IF proc_name.tag = "Err"
              THEN /\ toast' = "Failed to get process name"
                   /\ tool_bar' = [name |-> "Err", response |-> "ProcessDetach"]
              ELSE /\ tool_bar' = [name |-> "Ok", response |-> "none"]
                   /\ UNCHANGED toast
    /\ UNCHANGED <<config, process, lock_holder, plugin_calls, next_id, last_attach, title,
                   dumpVars, codecVars, backendVars, fieldVars>>

\* handle_reponse on the ProcessDetach that status_ui issued (app.rs:161-174).
HandleStatusResponse ==
    /\ tool_bar.response = "ProcessDetach"
    /\ tool_bar' = [tool_bar EXCEPT !.response = "none"]
    /\ IF lock_holder = "none"
       THEN /\ plugin_calls' = plugin_calls \o drop(process)
            /\ process' = NoProcess
            /\ title' = "YClass"
            /\ UNCHANGED toast
       ELSE /\ toast' = "Process is currently in use"
            /\ UNCHANGED <<process, plugin_calls, title>>
    /\ UNCHANGED <<config, lock_holder, next_id, last_attach,
                   dumpVars, codecVars, backendVars, fieldVars>>

\* A frame handles the response of the tool bar before anything else of the
\* user interface runs; the holders of the lock are other threads.
StatusNext ==
    \/ tool_bar.response = "none" /\ HandleProcessAttach
    \/ StatusUi
    \/ HandleStatusResponse
    \/ LockAcquire
    \/ LockRelease

\* ======================================================== class fields
\* The ids a behaviour hands out at most.
MaxFieldIds == 4

\* A field of the class: its id and its size in bytes; hex fields are padding.
FieldValue(id, size, hex) == [id |-> id, size |-> size, hex |-> hex]

\* The sizes of the hex fields that pad n bytes, largest first.
RECURSIVE PaddingSizes(_)
PaddingSizes(n) ==
    IF n >= 8 THEN <<8>> \o PaddingSizes(n - 8)
    ELSE IF n >= 4 THEN <<4>> \o PaddingSizes(n - 4)
    ELSE IF n >= 2 THEN <<2>> \o PaddingSizes(n - 2)
    ELSE IF n >= 1 THEN <<1>> \o PaddingSizes(n - 1)
    ELSE <<>>

\* allocate_padding(n): hex fields whose sizes sum to n, each with a fresh id
\* (next ids are handed out so far).
allocate_padding(n, next) ==
    LET sizes == PaddingSizes(n)
    IN  [i \in 1..Len(sizes) |-> FieldValue(next + i, sizes[i], TRUE)]

\* FieldKind::into_field: a field of the kind's size with a fresh id.
into_field(size, next) == FieldValue(next + 1, size, FALSE)

\* FieldKind::size() of the kinds the inspector offers.
KindSizes == {1, 2, 4, 8}

\* The byte counts and field counts the menus of the inspector offer.
AddInputs == {8, 16}
InsertInputs == {4}
RemoveInputs == {1, 4}

Some_selection(field_id) == [some |-> TRUE, field_id |-> field_id]
NoSelection == [some |-> FALSE, field_id |-> 0]
NoFieldOp == [op |-> "none", n |-> 0, outcome |-> "ok"]

\* class.fields.iter().position(|f| f.id() == field_id): the first index
\* (from 1) of the field, 0 for None.
position(fs, field_id) ==
    LET found == {i \in 1..Len(fs) : fs[i].id = field_id}
    IN  IF found = {} THEN 0 ELSE CHOOSE i \in found : \A j \in found : i <= j

\* What a handler leaves: the fields, the selection, the ids handed out, and
\* whether it ran ("ok"), found nothing to act on ("ignored"), raised the
\* error toast ("error") or panicked on unwrap() ("panic").
Handled(fs, sel, next, outcome) ==
    [fields |-> fs, selection |-> sel, next |-> next, outcome |-> outcome]

\* handle_reponse, Add(n).
ResponseAdd(fs, sel, selected, next, n) ==
    IF sel.some \/ selected
    THEN LET padding == allocate_padding(n, next)
         IN  Handled(fs \o padding, sel, next + Len(padding), "ok")
    ELSE Handled(fs, sel, next, "ignored")

\* Mutant: Remove(n) keeps the selection.
ResponseRemove_keeping(fs, sel, next, n) ==
    IF ~sel.some THEN Handled(fs, sel, next, "ignored")
    ELSE LET pos == position(fs, sel.field_id)
         IN  IF pos = 0 THEN Handled(fs, sel, next, "panic")
             ELSE LET to == Min(pos - 1 + n, Len(fs))
                  IN  Handled(SubSeq(fs, 1, pos - 1) \o SubSeq(fs, to + 1, Len(fs)),
                              sel, next, "ok")

\* handle_reponse, Remove(n): pos is the index from 1, so drain(from..to)
\* takes the fields pos..to out.
ResponseRemove(fs, sel, next, n) ==
    IF ~sel.some THEN Handled(fs, sel, next, "ignored")
    ELSE LET pos == position(fs, sel.field_id)
         IN  IF pos = 0 THEN Handled(fs, sel, next, "panic")
             ELSE LET discrd_sel == \E i \in 1..pos : fs[i].id = sel.field_id
                      to == Min(pos - 1 + n, Len(fs))
                  IN  Handled(SubSeq(fs, 1, pos - 1) \o SubSeq(fs, to + 1, Len(fs)),
                              IF discrd_sel THEN NoSelection ELSE sel, next, "ok")

\* handle_reponse, Insert(n).
ResponseInsert(fs, sel, next, n) ==
    IF ~sel.some THEN Handled(fs, sel, next, "ignored")
    ELSE LET pos == position(fs, sel.field_id)
         IN  IF pos = 0 THEN Handled(fs, sel, next, "panic")
             ELSE LET padding == allocate_padding(n, next)
                  IN  Handled(SubSeq(fs, 1, pos - 1) \o padding \o SubSeq(fs, pos, Len(fs)),
                              sel, next + Len(padding), "ok")

\* Mutant: the smaller field replaces the old one with no padding behind it.
Shrink_unpadded(fs, pos, new_size, next) ==
    LET new == into_field(new_size, next)
    IN  Handled(SubSeq(fs, 1, pos - 1) \o <<new>> \o SubSeq(fs, pos + 1, Len(fs)),
                Some_selection(new.id), new.id, "ok")

\* ChangeKind to a smaller kind (app.rs:119-126).
Shrink(fs, pos, new_size, next) ==
    LET padding == allocate_padding(fs[pos].size - new_size, next)
        new == into_field(new_size, next + Len(padding))
    IN  Handled(SubSeq(fs, 1, pos - 1) \o <<new>> \o padding \o SubSeq(fs, pos + 1, Len(fs)),
                Some_selection(new.id), new.id, "ok")

\* The loop that takes fields from pos on until new_size bytes are covered
\* or the fields end: <<steal_size, steal_len>>.
RECURSIVE Steal(_, _, _, _, _)
Steal(fs, pos, new_size, steal_size, steal_len) ==
    IF ~(steal_size < new_size) THEN <<steal_size, steal_len>>
    ELSE IF pos + steal_len > Len(fs) THEN <<steal_size, steal_len>>
    ELSE Steal(fs, pos, new_size, steal_size + fs[pos + steal_len].size, steal_len + 1)

\* ChangeKind to a kind that is not smaller (app.rs:127-155).
Grow(fs, sel, pos, new_size, next) ==
    LET stolen == Steal(fs, pos, new_size, 0, 0)
        steal_size == stolen[1]
        steal_len == stolen[2]
    IN  IF steal_size < new_size THEN Handled(fs, sel, next, "error")
        ELSE LET padding == allocate_padding(steal_size - new_size, next)
                 new == into_field(new_size, next + Len(padding))
             IN  Handled(SubSeq(fs, 1, pos - 1) \o <<new>> \o padding
                             \o SubSeq(fs, pos + steal_len, Len(fs)),
                         Some_selection(new.id), new.id, "ok")

\* handle_reponse, ChangeKind(new).
ResponseChangeKind(fs, sel, next, new_size) ==
    IF ~sel.some THEN Handled(fs, sel, next, "ignored")
    ELSE LET pos == position(fs, sel.field_id)
         IN  IF pos = 0 THEN Handled(fs, sel, next, "panic")
             ELSE IF fs[pos].size > new_size THEN Shrink(fs, pos, new_size, next)
             ELSE Grow(fs, sel, pos, new_size, next)

FieldInit ==
    /\ fields = <<>>
    /\ selection = NoSelection
    /\ class_list_selected \in BOOLEAN
    /\ next_field_id = 0
    /\ field_op = NoFieldOp

FieldIdle ==
    /\ fields = <<>>
    /\ selection = NoSelection
    /\ class_list_selected = FALSE
    /\ next_field_id = 0
    /\ field_op = NoFieldOp

\* A handler's result becomes the state; a panic ends the program.
Handle(op, n, r) ==
    /\ field_op.outcome # "panic"
    /\ r.next <= MaxFieldIds
    /\ fields' = r.fields
    /\ selection' = r.selection
    /\ next_field_id' = r.next
    /\ field_op' = [op |-> op, n |-> n, outcome |-> r.outcome]
    /\ toast' = IF r.outcome = "error" THEN "Not enough space for a new field" ELSE toast
    /\ UNCHANGED <<class_list_selected, config, process, lock_holder, plugin_calls, next_id,
                   last_attach, title, dumpVars, codecVars, backendVars, statusVars>>

HandleAdd ==
    \E n \in AddInputs :
        Handle("Add", n, ResponseAdd(fields, selection, class_list_selected, next_field_id, n))

HandleRemove ==
    \E n \in RemoveInputs :
        Handle("Remove", n, ResponseRemove(fields, selection, next_field_id, n))

HandleInsert ==
    \E n \in InsertInputs :
        Handle("Insert", n, ResponseInsert(fields, selection, next_field_id, n))

HandleChangeKind ==
    \E new_size \in KindSizes :
        Handle("ChangeKind", new_size,
               ResponseChangeKind(fields, selection, next_field_id, new_size))

\* The inspector stores the field the user clicked (inspector.rs:195).
Select ==
    /\ field_op.outcome # "panic"
    /\ \E i \in 1..Len(fields) :
          /\ selection # Some_selection(fields[i].id)
          /\ selection' = Some_selection(fields[i].id)
    /\ UNCHANGED <<fields, class_list_selected, next_field_id, field_op,
                   procVars, dumpVars, codecVars, backendVars, statusVars>>

FieldNext ==
    \/ HandleAdd
    \/ HandleRemove
    \/ HandleInsert
    \/ HandleChangeKind
    \/ Select

vars == <<dumpVars, procVars, codecVars, backendVars, statusVars, fieldVars>>

Init == DumpInit /\ ProcIdle /\ CodecIdle /\ BackendIdle /\ StatusIdle /\ FieldIdle

Next == DumpNext

Spec == Init /\ [][Next]_vars

InitProc == ProcInit /\ DumpIdle /\ CodecIdle /\ BackendIdle /\ StatusIdle /\ FieldIdle

SpecProc == InitProc /\ [][ProcNext]_vars

InitCodec == CodecInit /\ DumpIdle /\ ProcIdle /\ BackendIdle /\ StatusIdle /\ FieldIdle

SpecCodec == InitCodec /\ [][CodecNext]_vars

InitBackend ==
    /\ BackendInit /\ ProcIdle /\ CodecIdle /\ StatusIdle /\ FieldIdle
    /\ build \in Builds
    /\ wchunks = <<>>
    /\ write_result = "none"
    /\ file = <<>>
    /\ origin = "created"
    /\ reader = NotOpened
    /\ result = NoResult
    /\ listing = <<>>

SpecBackend == InitBackend /\ [][BackendNext]_vars

InitStatus == ProcInit /\ DumpIdle /\ CodecIdle /\ BackendIdle /\ StatusIdle /\ FieldIdle

SpecStatus == InitStatus /\ [][StatusNext]_vars

InitFields == FieldInit /\ DumpIdle /\ ProcIdle /\ CodecIdle /\ BackendIdle /\ StatusIdle

SpecFields == InitFields /\ [][FieldNext]_vars

\* ------------------------------------------- the file format, read directly
\* The trailer, the count word and the i-th index entry (1-based) of a file,
\* located as the format's reading algorithm says.
Trailer(f) == from_le_bytes(SubSeq(f, Len(f) - 8 + 1, Len(f)))
DiskCount(f) == from_le_bytes(SubSeq(f, Trailer(f) + 1, Trailer(f) + 8))
DiskEntry(f, i) ==
    from_bytes(SubSeq(f, Trailer(f) + 8 + SIZE * (i - 1) + 1,
                         Trailer(f) + 8 + SIZE * i)).entry

\* The bytes of the mapping at [from, from + n), -1 where the mapping has none.
BytesAt(m, from, n) == [i \in 1..n |-> IF from + i <= Len(m) THEN m[from + i] ELSE -1]

RECURSIVE SumDataLen(_, _)
SumDataLen(cs, S) ==
    IF S = {} THEN 0
    ELSE LET k == CHOOSE x \in S : TRUE
         IN  Len(cs[k].data) + SumDataLen(cs, S \ {k})

Written == origin = "written" /\ write_result = "Ok"

UniqueAddresses(cs) ==
    \A i, j \in 1..Len(cs) : i # j => cs[i].address # cs[j].address

NonOverlapping(cs) ==
    \A i, j \in 1..Len(cs) :
        i # j => \/ cs[i].address + Len(cs[i].data) <= cs[j].address
                 \/ cs[j].address + Len(cs[j].data) <= cs[i].address

\* Every indexed entry lies inside the data area, as a sum without wrapping.
EntriesInDataArea(r) ==
    \A a \in DOMAIN r.chunks :
        r.chunks[a].file_offset + r.chunks[a].length <= Trailer(r.mmap)

\* ------------------------------------------------------------------ C1
\* C1 (as claimed): a dump written from chunks with unique, non-overlapping
\* addresses, of whatever data lengths, is opened successfully, and
\* get_chunk_slice at the address of each chunk returns that chunk's bytes.
C1_RoundTrip ==
    (Written /\ UniqueAddresses(wchunks) /\ NonOverlapping(wchunks)
             /\ reader # NotOpened)
    => /\ reader.tag = "Ok"
       /\ \A i \in 1..Len(wchunks) :
             (result.op = "get_chunk_slice" /\ result.address = wchunks[i].address)
             => result.out = Some(wchunks[i].data)

\* ------------------------------------------------------------------ C2
\* C2 (as claimed, for the dumps whose entries lie in the data area): a
\* get_memory_slice(address, length) whose address lies in the chunk with the
\* greatest start address <= address returns min(length, bytes left in the
\* chunk) bytes of that chunk, from offset address - chunk.address.
C2_ContainmentRead ==
    (reader.tag = "Ok" /\ EntriesInDataArea(reader) /\ result.op = "get_memory_slice")
    => LET ps == {k \in DOMAIN reader.chunks : k <= result.address}
       IN  (ps # {} /\ result.address < SetMax(ps) + reader.chunks[SetMax(ps)].length)
           => LET c == reader.chunks[SetMax(ps)]
                  off == result.address - c.address
                  n == Min(result.length, c.length - off)
              IN  result.out = Some(BytesAt(reader.mmap, c.file_offset + off, n))

\* ------------------------------------------------------------------ C3
\* C3 (as claimed): open ends with a reader or an error, never a panic; a
\* file of fewer than 8 bytes, and a file whose trailer leaves no room for the
\* 8-byte chunk count inside the file, give an error.
C3_CorruptionRejection ==
    reader # NotOpened
    => /\ reader.tag \in {"Ok", "Err"}
       /\ Len(file) < 8 => reader.tag = "Err"
       /\ (Len(file) >= 8 /\ Trailer(file) + 8 > Len(file)) => reader.tag = "Err"

\* ------------------------------------------------------------------ C4
\* The rearrangements of a sequence.
Rearrangements(cs) ==
    {[i \in 1..Len(cs) |-> cs[p[i]]] : p \in Permutations(1..Len(cs))}

\* C4: for chunks with unique addresses, the file a successful write leaves is
\* the file it leaves for every other order of the same add_chunk calls.
C4_OrderingInvariance ==
    (Written /\ UniqueAddresses(wchunks))
    => \A cs \in Rearrangements(wchunks) :
          write(cs, Len(WriteCalls(cs))) = [res |-> "Ok", file |-> file]

\* Witness of C4: two chunks were added in descending address order and written.
C4_Witness ==
    /\ Written /\ UniqueAddresses(wchunks)
    /\ Len(wchunks) = 2
    /\ wchunks[1].address > wchunks[2].address
    /\ wchunks[1].data # <<>> /\ wchunks[2].data # <<>>

\* ------------------------------------------------------------------ C5
\* The chunks written before chunk j: those with a smaller address, and those
\* with the same address that were added earlier.
WrittenBefore(cs, j) ==
    {k \in 1..Len(cs) : \/ cs[k].address < cs[j].address
                        \/ (cs[k].address = cs[j].address /\ k < j)}

C6_ZeroLengthLegal ==
    (Written /\ UniqueAddresses(wchunks) /\ reader # NotOpened
             /\ \E i \in 1..Len(wchunks) : wchunks[i].data = <<>>)
    => /\ reader.tag = "Ok"
       /\ \A i \in 1..Len(wchunks) :
             (wchunks[i].data = <<>> /\ result.op = "get_chunk_slice"
                                     /\ result.address = wchunks[i].address)
             => result.out = Some(<<>>)

\* ------------------------------------------------------------------ C7
HasDuplicates(cs) == ~UniqueAddresses(cs)

\* C7 (as claimed): when two added chunks share an address, write fails or
\* open of the written file fails.
C7_DuplicatesRejected ==
    (origin = "written" /\ HasDuplicates(wchunks) /\ reader # NotOpened)
    => (write_result = "Err" \/ reader.tag = "Err")

\* ------------------------------------------------------------------ C8
\* The length of the last on-disk entry with address a.
LastDiskLength(f, a) ==
    LET js == {j \in 1..DiskCount(f) : DiskEntry(f, j).address = a}
    IN  DiskEntry(f, SetMax(js)).length

\* C8: every call of chunks() on an opened dump yields strictly ascending
\* addresses, exactly the addresses of the on-disk index entries whatever
\* their order there, each with the length indexed for it; a second call
\* yields what the first did.
C8_ListChunks ==
    \A k \in 1..Len(listing) :
        LET l == listing[k]
        IN  /\ \A i \in 1..(Len(l) - 1) : l[i][1] < l[i + 1][1]
            /\ {l[i][1] : i \in 1..Len(l)}
               = {DiskEntry(file, j).address : j \in 1..DiskCount(file)}
            /\ \A i \in 1..Len(l) : l[i][2] = LastDiskLength(file, l[i][1])
            /\ l = listing[1]

\* Witness of C8: chunks() was called twice on a dump whose on-disk index
\* holds a higher address before a lower one.
C8_Witness ==
    /\ Len(listing) = 2
    /\ DiskCount(file) = 2
    /\ DiskEntry(file, 1).address > DiskEntry(file, 2).address

\* ------------------------------------------------------------------ C9
\* C9 (as claimed): get_chunk_slice(address) returns all chunk.length bytes of
\* the chunk indexed at exactly that address, and nothing for any other
\* address.
C9_ExactLookup ==
    (reader.tag = "Ok" /\ result.op = "get_chunk_slice")
    => IF result.address \in DOMAIN reader.chunks
       THEN LET c == reader.chunks[result.address]
            IN  result.out = Some(BytesAt(reader.mmap, c.file_offset, c.length))
       ELSE result.out = None

\* ------------------------------------------------------------------ C10
Occurrences(cs, fn) == Cardinality({i \in 1..Len(cs) : cs[i] = fn})

\* C10: every plugin call is made on a constructed backend; each constructed
\* plugin backend has had attach invoked exactly once, as its first call;
\* while it sits in the slot detach has not been invoked; once it is discarded
\* detach has been invoked exactly once, as its last call.
C10_PluginLifecycle ==
    /\ \A i \in 1..Len(plugin_calls) : plugin_calls[i][1] \in 1..next_id
    /\ \A id \in 1..next_id :
          LET cs == CallsOf(id)
          IN  /\ cs # <<>>
              /\ cs[1] = "attach"
              /\ Occurrences(cs, "attach") = 1
              /\ IF process.kind = "Managed" /\ process.id = id
                 THEN Occurrences(cs, "detach") = 0
                 ELSE /\ Occurrences(cs, "detach") = 1
                      /\ cs[Len(cs)] = "detach"

\* Witness of C10: a plugin backend was attached, read from and then replaced
\* by a second plugin backend, which is in use.
C10_Witness ==
    /\ next_id = 2
    /\ process.kind = "Managed" /\ process.id = 2
    /\ CallsOf(1) = <<"attach", "read", "detach">>
    /\ CallsOf(2) = <<"attach", "can_read">>

\* ------------------------------------------------------------------ C11
\* C11: a ProcessAttach that finds a plugin library lacking one of the five
\* symbols ends with Process::attach returning an error; it constructs no
\* backend, leaves the slot as it was and invokes no plugin function.
C11_AtomicSymbolResolution ==
    [][(/\ HandleProcessAttach
        /\ lock_holder = "none"
        /\ last_attach'.env.exists /\ last_attach'.env.loads
        /\ last_attach'.env.missing # {})
       => /\ last_attach'.tag = "Err"
          /\ plugin_calls' = plugin_calls
          /\ next_id' = next_id
          /\ process' = process]_vars

\* Witness of C11: with a plugin backend in use, an attach found a library
\* without yc_detach and failed.
C11_Witness ==
    /\ process.kind = "Managed"
    /\ last_attach.env.exists /\ last_attach.env.loads
    /\ last_attach.env.missing = {"yc_detach"}
    /\ last_attach.tag = "Err"
    /\ CallsOf(1) = <<"attach">>

\* ------------------------------------------------------------------ C12
\* C12 (as claimed): once the last Process::attach has returned an error, the
\* slot holds no backend, whatever it held before.
C12_FailedAttachLeavesNone ==
    last_attach.tag = "Err" => process = NoProcess

\* ------------------------------------------------------------------ C18
\* The on-disk index of a file can be read: trailer, count word and entries
\* lie inside the file.
IndexReadable(f) ==
    /\ Len(f) >= 8
    /\ Trailer(f) + 8 <= Len(f)
    /\ Trailer(f) + 8 + SIZE * DiskCount(f) <= Len(f)

\* C18 (as claimed): every entry of a reader that open returned satisfies
\* file_offset + length <= index_offset as a sum without wrapping, and open
\* rejects with an error a file that has an entry whose file_offset + length
\* reaches 2^64.
C18_EntryBounds ==
    /\ reader.tag = "Ok" => EntriesInDataArea(reader)
    /\ (reader # NotOpened /\ IndexReadable(file)
          /\ \E j \in 1..DiskCount(file) :
                DiskEntry(file, j).file_offset + DiskEntry(file, j).length >= U64Mod)
       => reader.tag = "Err"

\* ------------------------------------------------------------------ C20
\* The orders of the chunks that are ascending in address.
AscendingOrders(cs) ==
    {p \in Permutations(1..Len(cs)) :
        \A i, j \in 1..Len(cs) : i < j => cs[p[i]].address <= cs[p[j]].address}

\* The pieces of a dump of chunks cs taken in order p: the bytes of each chunk,
\* the chunk count, an entry per chunk, the index offset.
StepPieces(cs, p) ==
    LET n == Len(cs)
        Before(i) == {p[k] : k \in 1..(i - 1)}
    IN  [i \in 1..n |-> cs[p[i]].data]
        \o <<to_le_bytes(n)>>
        \o [i \in 1..n |-> to_le_bytes(cs[p[i]].address)
                           \o to_le_bytes(SumDataLen(cs, Before(i)))
                           \o to_le_bytes(Len(cs[p[i]].data))]
        \o <<to_le_bytes(SumDataLen(cs, 1..n))>>

\* C20: add_chunk leaves the file empty; after write the file holds the first
\* n pieces of the sequence (chunk bytes in ascending address order, chunk
\* count, entries in the same order, index offset) for some n, nothing after
\* them, and write returned Ok exactly when all pieces were written.
C20_WriteStepOrder ==
    /\ origin = "created" => file = <<>>
    /\ origin = "written"
       => /\ write_result \in {"Ok", "Err"}
          /\ \E p \in AscendingOrders(wchunks) :
                LET pieces == StepPieces(wchunks, p)
                IN  \E n \in 0..Len(pieces) :
                       /\ file = Concat(SubSeq(pieces, 1, n))
                       /\ write_result = "Ok" <=> n = Len(pieces)

\* Witness of C20: two chunks added in descending address order; the write
\* failed after the bytes of both chunks and the chunk count were written.
C20_Witness ==
    /\ origin = "written" /\ write_result = "Err"
    /\ Len(wchunks) = 2
    /\ wchunks[1].address > wchunks[2].address
    /\ wchunks[1].data # <<>> /\ wchunks[2].data # <<>>
    /\ Len(file) = Len(wchunks[1].data) + Len(wchunks[2].data) + 8

\* ------------------------------------------------------------------ C19
\* b is the 8-byte little-endian form of v: byte i weighs ByteRadix^(i-1).
IsLittleEndian(b, v) ==
    /\ Len(b) = 8
    /\ \A i \in 1..8 : b[i] \in 0..(ByteRadix - 1)
    /\ v = b[1] + ByteRadix * (b[2] + ByteRadix * (b[3] + ByteRadix * (b[4]
           + ByteRadix * (b[5] + ByteRadix * (b[6] + ByteRadix * (b[7]
           + ByteRadix * b[8]))))))

\* C19: to_bytes emits 24 bytes, address, file_offset and length in this
\* order, each little-endian; from_bytes of at least these 24 bytes succeeds
\* with the three values of the entry; from_bytes of fewer than 24 bytes is an
\* error.
C19_CodecRoundTrip ==
    /\ codec_bytes # <<>>
       => /\ Len(codec_bytes) = 24
          /\ IsLittleEndian(SubSeq(codec_bytes, 1, 8), codec_entry.address)
          /\ IsLittleEndian(SubSeq(codec_bytes, 9, 16), codec_entry.file_offset)
          /\ IsLittleEndian(SubSeq(codec_bytes, 17, 24), codec_entry.length)
    /\ codec_decoded # NotDecoded
       => IF codec_decoded.len >= 24
          THEN codec_decoded.res = [tag |-> "Ok", entry |-> codec_entry]
          ELSE codec_decoded.res = [tag |-> "Err"]

\* Witness of C19: an entry with three different non-zero fields, one of them
\* u64::MAX, was encoded and decoded from exactly 24 bytes.
C19_Witness ==
    /\ codec_entry = ChunkEntry(4096, 1, U64Max)
    /\ codec_decoded.len = 24
    /\ codec_decoded.res.tag = "Ok"

\* --------------------------------------------- the snapshot, read directly
\* Address a lies in region r of the container / in segment s of the backend.
InRegion(r, a) == r.base <= a /\ a < r.base + Len(r.bytes)
InSegment(s, a) == s[1] <= a /\ a < s[1] + Len(s[2])

\* The segments that hold all of region r.
SegmentsHolding(r) ==
    {i \in 1..Len(backend.segments) :
        /\ backend.segments[i][1] <= r.base
        /\ r.base + Len(r.bytes) <= backend.segments[i][1] + Len(backend.segments[i][2])}

\* Regions k and k+1 of the container share a segment.
Merged(k) ==
    \E i \in 1..Len(backend.segments) :
        /\ InSegment(backend.segments[i], container.regions[k].base)
        /\ InSegment(backend.segments[i], container.regions[k + 1].base)

NumericallyAdjacent(k) ==
    container.regions[k].base + Len(container.regions[k].bytes)
    = container.regions[k + 1].base

ContiguousInHost(k) ==
    container.regions[k].host + Len(container.regions[k].bytes)
    = container.regions[k + 1].host

\* ------------------------------------------------------------------ C13
\* C13 (as claimed): after Process::minidump succeeds every region of the
\* container lies in exactly one segment; can_read is true and a 1-byte read
\* returns the region's byte at every address inside a region; regions that
\* are not adjacent are in separate segments.
C13_SnapshotCoverage ==
    backend.kind = "Minidump"
    => /\ \A k \in 1..Len(container.regions) :
             Cardinality(SegmentsHolding(container.regions[k])) = 1
       /\ \A k \in 1..(Len(container.regions) - 1) :
             ~NumericallyAdjacent(k) => ~Merged(k)
       /\ (\E k \in 1..Len(container.regions) : InRegion(container.regions[k], io.address))
          => /\ io.op = "can_read" => (io.tag = "Ok" /\ io.out)
             /\ (io.op = "read" /\ io.len = 1)
                => (io.tag = "Ok" /\ io.buf = <<ByteAt(io.address)>>)

\* ------------------------------------------------------------------ C14
\* C14 (as claimed): construction from a parsed container succeeds; two
\* neighbouring regions share a segment only when they are numerically
\* adjacent and their bytes are contiguous in host memory, so regions that
\* are numerically adjacent but not contiguous stay in separate segments.
C14_SnapshotMerge ==
    container.parse = "ok"
    => /\ backend.kind = "Minidump"
       /\ \A k \in 1..(Len(container.regions) - 1) :
             Merged(k) => (NumericallyAdjacent(k) /\ ContiguousInHost(k))

\* ------------------------------------------------------------------ C15
\* C15 (as claimed): a read on the snapshot backend at an address inside a
\* segment with a buffer reaching past the segment's end completes, copies the
\* bytes from the address to the segment's end into the front of the buffer
\* and leaves the rest of the buffer as it was.
C15_SnapshotShortRead ==
    (backend.kind = "Minidump" /\ io.op = "read")
    => \A i \in 1..Len(backend.segments) :
          LET s == backend.segments[i]
              left == s[1] + Len(s[2]) - io.address
          IN  (InSegment(s, io.address) /\ io.len > left)
              => /\ io.tag = "Ok"
                 /\ io.buf = [j \in 1..io.len |->
                                 IF j <= left THEN ByteAt(io.address + j - 1)
                                 ELSE ByteRadix - 1]

\* ------------------------------------------------------------------ C16
\* C16: a Process::write on the snapshot or the concatenated-dump backend
\* changes the result of no read and of no can_read: at every probed address
\* and buffer length they return after the write what they returned before.
C16_StaticReadOnly ==
    [][(ProcessWrite /\ backend.kind \in {"Minidump", "ConcatenatedDump"})
       => \A a \in BackendProbes :
             /\ Process_can_read(backend', a, build) = Process_can_read(backend, a, build)
             /\ \A n \in BufLens :
                   Process_read(backend', a, Filler(n), TRUE, build)
                   = Process_read(backend, a, Filler(n), TRUE, build)]_vars

\* Witness of C16: the first byte of a snapshot segment was written to and
\* then read: the read returned the byte of the snapshot.
C16_Witness ==
    /\ backend.kind = "Minidump"
    /\ backend.segments # <<>>
    /\ io.op = "read" /\ io.len = 1 /\ io.wrote
    /\ io.address = backend.segments[1][1]
    /\ io.buf = <<ByteAt(io.address)>>
    /\ io.buf # Filler(1)

\* ------------------------------------------------------------------ C17
\* C17 (as claimed): can_read on the live backend is true exactly when some
\* region captured at attach has from <= address < to and was readable then,
\* whatever the process has mapped since.
C17_LiveCanRead ==
    (backend.kind = "Internal" /\ io.op = "can_read")
    => (io.out <=> \E k \in 1..Len(backend.maps) :
                      /\ backend.maps[k].from <= io.address
                      /\ io.address < backend.maps[k].to
                      /\ backend.maps[k].read)

\* ------------------------------------------------------------------ C21
\* C21 (as claimed): when the plugin library loads and has all five symbols,
\* the status its attach function returns decides: 0 gives a Plugin backend,
\* any other status makes Process::attach fail with no backend.
C21_AttachStatus ==
    (/\ last_attach.tag # "none"
     /\ last_attach.env.exists /\ last_attach.env.loads /\ last_attach.env.missing = {})
    => IF last_attach.env.status = 0
       THEN last_attach.tag = "Ok" /\ last_attach.kind = "Managed"
       ELSE last_attach.tag = "Err" /\ last_attach.kind = "None"

\* ------------------------------------------------------------------ C22
\* C22: Process::attach returns a Plugin backend or an error when the plugin
\* file exists; the file error, and never Live, when the file is missing and
\* a plugin_path is configured; a Live backend or an OS-level error when the
\* file is missing and no plugin_path is configured.
C22_BackendSelection ==
    last_attach.tag # "none"
    => IF last_attach.env.exists
       THEN \/ last_attach.tag = "Ok" /\ last_attach.kind = "Managed"
            \/ last_attach.tag = "Err" /\ last_attach.kind = "None"
                                       /\ last_attach.err \in {"library", "symbol"}
       ELSE IF config.plugin_path_set
       THEN last_attach.tag = "Err" /\ last_attach.kind = "None"
                                    /\ last_attach.err = "metadata"
       ELSE \/ last_attach.tag = "Ok" /\ last_attach.kind = "Internal"
            \/ last_attach.tag = "Err" /\ last_attach.kind = "None"
                                       /\ last_attach.err \in {"find_process_by_id", "maps"}

\* Witness of C22: with a plugin_path configured and a plugin backend in use,
\* an attach found no file at the path and failed with the file error.
C22_Witness ==
    /\ config.plugin_path_set
    /\ process.kind = "Managed"
    /\ ~last_attach.env.exists
    /\ last_attach.env.os = "ok"
    /\ last_attach.err = "metadata"

\* ------------------------------------------------------------------ C23
\* C23: a ProcessAttach or ProcessDetach handled while somebody holds the
\* slot's lock leaves the slot as it was, calls neither Process::attach nor
\* any plugin function, and raises "Process is currently in use"; every step
\* that changes the slot is taken while nobody else holds the lock.
C23_SlotExclusivity ==
    [][/\ ((HandleProcessAttach \/ HandleProcessDetach) /\ lock_holder # "none")
          => /\ process' = process
             /\ plugin_calls' = plugin_calls
             /\ next_id' = next_id
             /\ last_attach' = last_attach
             /\ toast' = "Process is currently in use"
       /\ process' # process => lock_holder = "none"]_vars

\* Witness of C23: a plugin backend is in the slot, a reader holds the lock
\* and the "in use" warning was raised.
C23_Witness ==
    /\ process.kind = "Managed"
    /\ lock_holder = "reader"
    /\ toast = "Process is currently in use"
    /\ CallsOf(process.id) = <<"attach">>

\* ------------------------------------------------------------------ C26
\* The plugin backends attached and not yet detached after the first k calls.
LiveAfter(k) ==
    {id \in 1..next_id :
        /\ \E i \in 1..k : plugin_calls[i] = <<id, "attach">>
        /\ ~\E i \in 1..k : plugin_calls[i] = <<id, "detach">>}

\* C26 (as claimed): at every moment at most one plugin backend is attached
\* and not yet detached; when an attach replaces a plugin backend, the old
\* backend's detach precedes the new backend's attach.
C26_AtMostOneLive ==
    \A k \in 0..Len(plugin_calls) : Cardinality(LiveAfter(k)) <= 1

ChunksHolding(r, address) ==
    {a \in DOMAIN r.chunks : a <= address /\ address < a + r.chunks[a].length}

\* C25: a read on the ConcatenatedDump backend completes for every address
\* and buffer length, overwrites the first k bytes of the buffer with the k
\* bytes get_memory_slice(address, buf.len()) returns (none when it returns
\* absent) and leaves the rest of the buffer as it was.
C25_ConcatenatedDumpRead ==
    (backend.kind = "ConcatenatedDump" /\ io.op = "read")
    => /\ io.tag = "Ok"
       /\ LET data == get_memory_slice(backend.reader, io.address, io.len, build)
              k == IF data.tag = "Some" THEN Len(data.bytes) ELSE 0
          IN  /\ data.tag # "Panic"
              /\ k <= io.len
              /\ io.buf = data.bytes \o Filler(io.len - k)

\* ------------------------------------------------------------------ C27
\* C27: on a dump that open accepted, get_memory_slice(address, n) returns a
\* view, and can_read(address) is true, exactly when some indexed chunk
\* holds the address.
C27_ContainmentComplete ==
    (backend.kind = "ConcatenatedDump" /\ io.op \in {"read", "can_read"})
    => LET held == ChunksHolding(backend.reader, io.address) # {}
           data == get_memory_slice(backend.reader, io.address, io.len, build)
       IN  /\ (data.tag = "Some") <=> held
           /\ io.op = "can_read" => (io.tag = "Ok" /\ (io.out <=> held))

\* ------------------------------------------------------------------ C28
\* The bytes the static backend's source stores at the address: of the
\* regions of the snapshot, or of the indexed chunks of the dump.
StoredBytes(address) ==
    IF backend.kind = "Minidump"
    THEN {container.regions[k].bytes[address - container.regions[k].base + 1] :
             k \in {j \in 1..Len(container.regions) : InRegion(container.regions[j], address)}}
    ELSE {backend.reader.mmap[backend.reader.chunks[a].file_offset + (address - a) + 1] :
             a \in ChunksHolding(backend.reader, address)}

\* What read(address, buf) does to a 1-byte buffer, whatever the buffer held.
ReadOverwrites(address) ==
    \E b \in StoredBytes(address) :
        \A f \in 0..(ByteRadix - 1) :
            Process_read(backend, address, <<f>>, TRUE, build) = ReadOk(<<b>>)

ReadLeaves(address) ==
    \A f \in 0..(ByteRadix - 1) :
        Process_read(backend, address, <<f>>, TRUE, build) = ReadOk(<<f>>)

\* C28: on the Minidump and ConcatenatedDump backends can_read(address) is
\* true exactly when a read with a 1-byte buffer overwrites the buffer with
\* the byte stored at the address, and when can_read is false the read
\* completes and leaves the buffer as it was.
C28_CanReadAgreesWithRead ==
    (backend.kind \in {"Minidump", "ConcatenatedDump"} /\ io.op = "can_read")
    => /\ (io.tag = "Ok" /\ io.out) <=> ReadOverwrites(io.address)
       /\ (io.tag = "Ok" /\ ~io.out) => ReadLeaves(io.address)

\* Witness of C28: can_read answered true on a snapshot whose read at that
\* address overwrites the buffer.
C28_Witness ==
    /\ backend.kind = "Minidump"
    /\ io.op = "can_read" /\ io.tag = "Ok" /\ io.out
    /\ ReadOverwrites(io.address)

\* ------------------------------------------------------------------ C29
RECURSIVE SumSizes(_)
SumSizes(fs) == IF fs = <<>> THEN 0 ELSE fs[1].size + SumSizes(Tail(fs))

SelectionValid == selection.some => \E i \in 1..Len(fields) : fields[i].id = selection.field_id

\* C29: the selection is absent or names a field of the class, no handler
\* panics in its position lookup, Remove clears the selection, ChangeKind
\* that replaces the field selects the replacement, and Remove(n) takes out
\* the selected field and the fields behind it, n of them or as many as
\* there are.
C29_SelectionValid ==
    /\ [](SelectionValid /\ field_op.outcome # "panic")
    /\ [][(HandleRemove /\ selection.some)
            => LET pos == position(fields, selection.field_id)
                   removed == Min(field_op'.n, Len(fields) - pos + 1)
               IN  /\ ~selection'.some
                   /\ Len(fields') = Len(fields) - removed
                   /\ fields' = SubSeq(fields, 1, pos - 1)
                                   \o SubSeq(fields, pos + removed, Len(fields))]_vars
    /\ [][(HandleChangeKind /\ field_op'.outcome = "ok")
            => LET pos == position(fields, selection.field_id)
               IN  /\ selection'.some
                   /\ selection'.field_id = fields'[pos].id
                   /\ ~fields'[pos].hex]_vars

\* Witness of C29: a Remove that asked for more fields than there were
\* behind the selected one cleared the selection and left fields in front.
C29_Witness ==
    /\ field_op.op = "Remove" /\ field_op.outcome = "ok" /\ field_op.n = 4
    /\ ~selection.some
    /\ Len(fields) >= 1

\* ------------------------------------------------------------------ C30
\* C30: ChangeKind(new) on the selected field keeps the sum of the field
\* sizes and every field in front of the selected one; a smaller kind is
\* followed by padding for the remainder, a larger one takes the fields
\* behind it until its size is covered and the excess comes back as padding,
\* and when the fields from the selected one on are too small the error is
\* reported and the fields stay as they are.
C30_ChangeKindKeepsSize ==
    [][(HandleChangeKind /\ selection.some)
         => LET pos == position(fields, selection.field_id)
                new_size == field_op'.n
                rest == SumSizes(SubSeq(fields, pos, Len(fields)))
                pads(k) == SubSeq(fields', pos + 1, pos + k)
            IN  /\ SumSizes(fields') = SumSizes(fields)
                /\ SubSeq(fields', 1, pos - 1) = SubSeq(fields, 1, pos - 1)
                /\ IF rest < new_size
                   THEN /\ field_op'.outcome = "error"
                        /\ toast' = "Not enough space for a new field"
                        /\ fields' = fields
                   ELSE /\ field_op'.outcome = "ok"
                        /\ fields'[pos].size = new_size
                        /\ \E taken \in 1..(Len(fields) - pos + 1), k \in 0..3 :
                              LET covered == SumSizes(SubSeq(fields, pos, pos + taken - 1))
                              IN  /\ covered >= new_size
                                  /\ taken > 1
                                       => SumSizes(SubSeq(fields, pos, pos + taken - 2)) < new_size
                                  /\ \A i \in 1..k : pads(k)[i].hex
                                  /\ SumSizes(pads(k)) = covered - new_size
                                  /\ SubSeq(fields', pos + 1 + k, Len(fields'))
                                        = SubSeq(fields, pos + taken, Len(fields))]_vars

\* Witness of C30: a ChangeKind to a smaller kind left the new field
\* selected with padding behind it.
C30_Witness ==
    /\ field_op.op = "ChangeKind" /\ field_op.outcome = "ok"
    /\ selection.some
    /\ \E i \in 1..(Len(fields) - 1) :
          /\ fields[i].id = selection.field_id
          /\ ~fields[i].hex /\ fields[i].size = field_op.n
          /\ fields[i + 1].hex /\ fields[i + 1].id < fields[i].id

====
